---- MODULE Spec2Model ----
(***************************************************************************)
(* Model of Code/surprise/biclustering/bicluster.py: the Bicluster value   *)
(* object (construction, geometry, equality/hash) and the Biclustering     *)
(* collection (deduplication, p-value filter, area sort and the            *)
(* constant-frequency-column significance pass).                           *)
(*                                                                         *)
(* Conventions.  Python exceptions are the strings "ValueError",           *)
(* "AttributeError", "TypeError", "IndexError", "ZeroDivisionError";       *)
(* "none" is normal completion.  Floating-point numbers are exact          *)
(* rationals <<num, den>> in lowest terms.  None (an unset pvalue) is the  *)
(* empty tuple.  The interpreter is Python 3 (None < x raises TypeError)   *)
(* with a numpy in which np.bool is bool and np.int is int.                *)
(***************************************************************************)
EXTENDS Integers, Sequences, FiniteSets, TLC

VARIABLES bics, biclusters, data_matrix, ret

vars == <<bics, biclusters, data_matrix, ret>>

(***************************************************************************)
(* Bounds of the model.                                                    *)
(***************************************************************************)
MaxLen == 2        \* longest index array drawn for the geometry checks
MaxBics == 2       \* Bicluster objects alive at once
MaxColl == 2       \* longest member list handed to Biclustering

None == <<>>

(***************************************************************************)
(* Arithmetic helpers: exact rationals stand for Python/numpy floats.      *)
(***************************************************************************)
RECURSIVE GCD(_, _)
GCD(a, b) == IF b = 0 THEN a ELSE GCD(b, a % b)

Frac(n, d) == LET g == GCD(n, d) IN IF g = 0 THEN <<0, 1>> ELSE <<n \div g, d \div g>>

FracLess(x, y) == x[1] * y[2] < y[1] * x[2]

FracLeq(x, y) == x[1] * y[2] <= y[1] * x[2]

FracMul(x, y) == Frac(x[1] * y[1], x[2] * y[2])

RECURSIVE Pow(_, _)
Pow(b, e) == IF e = 0 THEN 1 ELSE b * Pow(b, e - 1)

RECURSIVE Choose(_, _)
Choose(n, k) == IF k = 0 THEN 1 ELSE IF k > n THEN 0 ELSE (Choose(n - 1, k - 1) * n) \div k

(***************************************************************************)
(* numpy helpers on one-dimensional integer arrays (sequences).            *)
(***************************************************************************)
SetOf(s) == {s[i] : i \in DOMAIN s}

RECURSIVE SortedSeqOf(_)
SortedSeqOf(S) ==
    IF S = {} THEN <<>>
    ELSE LET m == CHOOSE x \in S : \A y \in S : x <= y
         IN <<m>> \o SortedSeqOf(S \ {m})

\* ndarray.sort(): ascending, keeps repeated elements
RECURSIVE Insert(_, _)
Insert(x, s) ==
    IF s = <<>> THEN <<x>>
    ELSE IF x <= Head(s) THEN <<x>> \o s
    ELSE <<Head(s)>> \o Insert(x, Tail(s))

RECURSIVE NpSort(_)
NpSort(s) == IF s = <<>> THEN <<>> ELSE Insert(Head(s), NpSort(Tail(s)))

\* np.intersect1d / np.union1d: sorted, unique
Intersect1d(a, b) == SortedSeqOf(SetOf(a) \cap SetOf(b))

Union1d(a, b) == SortedSeqOf(SetOf(a) \cup SetOf(b))

\* np.nonzero(mask)[0]: the positions (from 0) where the mask is true
Nonzero(mask) == SortedSeqOf({i - 1 : i \in {j \in DOMAIN mask : mask[j]}})

\* str(ndarray) of a short array of one-digit integers: "[a b c]"
Digit(n) == <<"0", "1", "2", "3", "4", "5", "6", "7", "8", "9">>[n + 1]

RECURSIVE StrElems(_)
StrElems(s) ==
    IF s = <<>> THEN <<>>
    ELSE IF Len(s) = 1 THEN <<Digit(s[1])>>
    ELSE <<Digit(s[1]), " ">> \o StrElems(Tail(s))

Str(s) == <<"[">> \o StrElems(s) \o <<"]">>

(***************************************************************************)
(* Arguments of the constructor.  A rows/cols argument is an ndarray of    *)
(* dtype bool/int/float or something that is not an ndarray (a list).      *)
(* A data argument is absent, a non-array, or a 2-d ndarray with a shape.  *)
(***************************************************************************)
IntArr(s) == [type |-> "ndarray", dtype |-> "int", v |-> s, mask |-> <<>>]

BoolArr(m) == [type |-> "ndarray", dtype |-> "bool", v |-> <<>>, mask |-> m]

FloatArr(s) == [type |-> "ndarray", dtype |-> "float", v |-> s, mask |-> <<>>]

PyList(s) == [type |-> "list", dtype |-> "int", v |-> s, mask |-> <<>>]

NoData == [kind |-> "None", shape |-> <<0, 0>>, v |-> <<>>]

ListData == [kind |-> "list", shape |-> <<0, 0>>, v |-> <<>>]

NdData(n, m, v) == [kind |-> "ndarray", shape |-> <<n, m>>, v |-> v]

NoObj == [rows |-> <<>>, cols |-> <<>>, rows_set |-> {}, cols_set |-> {},
          data |-> NoData, pvalue |-> None, area |-> 0]

Raise(e) == [err |-> e, obj |-> NoObj]

\* lines 34-42: data validation, pvalue and area
BiclusterFinish(r, c, data, pvalue) ==
    LET n == Len(r)
        m == Len(c)
        obj == [rows |-> r, cols |-> c, rows_set |-> SetOf(r), cols_set |-> SetOf(c),
                data |-> data, pvalue |-> pvalue, area |-> n * m]
    IN IF data.kind = "None" THEN [err |-> "none", obj |-> obj]
       ELSE IF data.kind = "ndarray"
               /\ (data.shape = <<n, m>> \/ (data.shape[1] = 0 /\ n = 0))
            THEN [err |-> "none", obj |-> obj]
       ELSE Raise("ValueError")

\* Bicluster.__init__
BiclusterInit(rows, cols, data, pvalue) ==
    IF rows.type = "ndarray" /\ rows.dtype = "bool" /\ cols.type # "ndarray"
    THEN Raise("AttributeError")           \* cols.dtype on a non-array
    ELSE IF rows.type = "ndarray" /\ rows.dtype = "bool" /\ cols.dtype = "bool"
    THEN BiclusterFinish(Nonzero(rows.mask), Nonzero(cols.mask), data, pvalue)
    ELSE IF cols.type # "ndarray"
    THEN Raise("ValueError")
    ELSE IF rows.type # "ndarray"
    THEN Raise("AttributeError")           \* rows.dtype on a non-array
    ELSE IF rows.dtype = "int" /\ cols.dtype = "int"
    THEN BiclusterFinish(rows.v, cols.v, data, pvalue)
    ELSE Raise("ValueError")

(***************************************************************************)
(* Bicluster methods.                                                      *)
(***************************************************************************)
\* Bicluster.set_pvalue
SetPvalueObj(b, pv) == [b EXCEPT !.pvalue = pv]

\* a slip that takes the union where the intersection is meant
IntersectionAsUnion(a, b) ==
    BiclusterInit(IntArr(Union1d(a.rows, b.rows)),
                  IntArr(Union1d(a.cols, b.cols)), NoData, None)

\* Bicluster.intersection
Intersection(a, b) ==
    BiclusterInit(IntArr(Intersect1d(a.rows, b.rows)),
                  IntArr(Intersect1d(a.cols, b.cols)), NoData, None)

\* Bicluster.union
Union(a, b) ==
    BiclusterInit(IntArr(Union1d(a.rows, b.rows)),
                  IntArr(Union1d(a.cols, b.cols)), NoData, None)

Min(x, y) == IF x <= y THEN x ELSE y

\* Bicluster.overlap: intersection area / min area (true division)
Overlap(a, b) ==
    LET min_area == Min(a.area, b.area)
        inter == Intersection(a, b)
    IN IF inter.err # "none" THEN [err |-> inter.err, val |-> <<0, 1>>]
       ELSE IF min_area = 0 THEN [err |-> "ZeroDivisionError", val |-> <<0, 1>>]
       ELSE [err |-> "none", val |-> Frac(inter.obj.area, min_area)]

\* a slip that accepts equal areas
ContainedInNonStrict(a, b) ==
    LET rows_intersec == a.rows_set \cap b.rows_set
        cols_intersec == a.cols_set \cap b.cols_set
        intersect_area == Cardinality(rows_intersec) * Cardinality(cols_intersec)
    IN IF a.area <= b.area /\ intersect_area = a.area THEN 1 ELSE -1

\* Bicluster.contained_in
ContainedIn(a, b) ==
    LET rows_intersec == a.rows_set \cap b.rows_set
        cols_intersec == a.cols_set \cap b.cols_set
        intersect_area == Cardinality(rows_intersec) * Cardinality(cols_intersec)
    IN IF a.area < b.area /\ intersect_area = a.area THEN 1 ELSE -1

\* a slip that sorts the rows into both arrays
SortObjRowsTwice(b) == [b EXCEPT !.rows = NpSort(b.rows), !.cols = NpSort(b.rows)]

\* Bicluster.sort
SortObj(b) == [b EXCEPT !.rows = NpSort(b.rows), !.cols = NpSort(b.cols)]

\* Bicluster.__eq__
Eq(a, b) == SetOf(a.rows) = SetOf(b.rows) /\ SetOf(a.cols) = SetOf(b.cols)

\* Bicluster.__hash__: the hashed key; Python's hash of it is taken to be
\* collision-free, so two hashes are equal exactly when the keys are.
Hash(b) == <<"rows", Str(b.rows), "cols", Str(b.cols)>>

(***************************************************************************)
(* Biclustering: the member list is a sequence of references (positions    *)
(* in bics); 0 stands for an element that is not a Bicluster.              *)
(***************************************************************************)
\* Biclustering.__init__
BiclusteringInit(elems) ==
    IF \A k \in DOMAIN elems : elems[k] # 0
    THEN [err |-> "none", val |-> elems]
    ELSE [err |-> "ValueError", val |-> <<>>]

\* set(self.biclusters): an element is dropped when an element already in
\* the set has the same hash and compares equal
RECURSIVE SetBuild(_, _, _)
SetBuild(heap, ids, acc) ==
    IF ids = <<>> THEN acc
    ELSE LET x == Head(ids)
             dup == \E k \in DOMAIN acc :
                       \/ acc[k] = x
                       \/ /\ Hash(heap[acc[k]]) = Hash(heap[x])
                          /\ Eq(heap[acc[k]], heap[x])
         IN SetBuild(heap, Tail(ids), IF dup THEN acc ELSE Append(acc, x))

Perms(s) ==
    {t \in [DOMAIN s -> SetOf(s)] :
        \A x \in SetOf(s) : Cardinality({k \in DOMAIN s : t[k] = x})
                             = Cardinality({k \in DOMAIN s : s[k] = x})}

\* Biclustering.remove_duplicates: list(set(...)) in any iteration order
RemoveDuplicatesResults(heap, ids) == Perms(SetBuild(heap, ids, <<>>))

RECURSIVE FilterLess(_, _, _)
FilterLess(heap, ids, pv) ==
    IF ids = <<>> THEN <<>>
    ELSE IF FracLess(heap[Head(ids)].pvalue, pv)
         THEN <<Head(ids)>> \o FilterLess(heap, Tail(ids), pv)
         ELSE FilterLess(heap, Tail(ids), pv)

\* a filter that silently drops the members without a pvalue
RECURSIVE FilterSet(_, _)
FilterSet(heap, ids) ==
    IF ids = <<>> THEN <<>>
    ELSE IF heap[Head(ids)].pvalue # None
         THEN <<Head(ids)>> \o FilterSet(heap, Tail(ids))
         ELSE FilterSet(heap, Tail(ids))

RemoveByPvalueSkipUnset(heap, ids, pv) ==
    [err |-> "none", val |-> FilterLess(heap, FilterSet(heap, ids), pv)]

\* Biclustering.remove_bypvalue: None < pv raises TypeError inside the
\* comprehension, before self.biclusters is assigned
RemoveByPvalueResult(heap, ids, pv) ==
    IF \E k \in DOMAIN ids : heap[ids[k]].pvalue = None
    THEN [err |-> "TypeError", val |-> ids]
    ELSE [err |-> "none", val |-> FilterLess(heap, ids, pv)]

\* sorted(..., key=attrgetter('area'), reverse=descending): stable
RECURSIVE InsertByArea(_, _, _, _)
InsertByArea(heap, x, s, descending) ==
    IF s = <<>> THEN <<x>>
    ELSE LET before == IF descending THEN heap[x].area >= heap[Head(s)].area
                       ELSE heap[x].area <= heap[Head(s)].area
         IN IF before THEN <<x>> \o s
            ELSE <<Head(s)>> \o InsertByArea(heap, x, Tail(s), descending)

RECURSIVE SortByAreaResult(_, _, _)
SortByAreaResult(heap, ids, descending) ==
    IF ids = <<>> THEN <<>>
    ELSE InsertByArea(heap, Head(ids), SortByAreaResult(heap, Tail(ids), descending),
                      descending)

(***************************************************************************)
(* Biclustering.run_constant_freq_column.  A matrix is a sequence of rows, *)
(* each a sequence of cell values; column c of the code is position c + 1. *)
(***************************************************************************)
NRowsOf(M) == Len(M)

NColsOf(M) == Len(M[1])

\* counts[np.where(values == v)[0][0]] when v in values, else 0
LabelCount(M, col_idx, v) == Cardinality({r \in DOMAIN M : M[r][col_idx + 1] = v})

\* count accumulated over "for v in labels"
RECURSIVE CountLoop(_, _, _)
CountLoop(M, col_idx, labels) ==
    IF labels = <<>> THEN 0
    ELSE LabelCount(M, col_idx, Head(labels)) + CountLoop(M, col_idx, Tail(labels))

\* a table that never forces the denominator to the row count
FreqRowNoCorrection(M, col_idx, labels, missing_correction) ==
    LET count == CountLoop(M, col_idx, labels)
    IN [l \in DOMAIN labels |->
           IF count # 0 THEN Frac(LabelCount(M, col_idx, labels[l]), count)
           ELSE <<0, 1>>]

\* one row of freq_cols (lines 119-133)
FreqRow(M, col_idx, labels, missing_correction) ==
    LET counted == CountLoop(M, col_idx, labels)
        count == IF missing_correction THEN NRowsOf(M) ELSE counted
    IN [l \in DOMAIN labels |->
           IF count # 0 THEN Frac(LabelCount(M, col_idx, labels[l]), count)
           ELSE <<0, 1>>]

\* freq_cols (lines 117-133)
FreqCols(M, labels, missing_correction) ==
    [c \in 1..NColsOf(M) |-> FreqRow(M, c - 1, labels, missing_correction)]

\* labels.index(v): 0 when v is not in labels (ValueError)
LabelIndex(labels, v) ==
    IF \E l \in DOMAIN labels : labels[l] = v
    THEN CHOOSE l \in DOMAIN labels : labels[l] = v /\ \A k \in 1..(l - 1) : labels[k] # v
    ELSE 0

\* the loop "for col in bic.cols" (lines 135-139); j counts from 0
RECURSIVE JointProb(_, _, _, _, _)
JointProb(bic, table, labels, j, p) ==
    IF j >= Len(bic.cols) THEN [err |-> "none", val |-> p]
    ELSE IF bic.data.kind = "None" THEN [err |-> "AttributeError", val |-> p]
    ELSE IF bic.data.shape[1] = 0 \/ j >= bic.data.shape[2]
         THEN [err |-> "IndexError", val |-> p]
    ELSE LET idx == LabelIndex(labels, bic.data.v[1][j + 1])
             col == bic.cols[j + 1]
         IN IF idx = 0 THEN [err |-> "ValueError", val |-> p]
            ELSE IF col + 1 > Len(table) THEN [err |-> "IndexError", val |-> p]
            ELSE JointProb(bic, table, labels, j + 1, FracMul(p, table[col + 1][idx]))

\* sum over i in lo..n of C(n, i) a^i (b - a)^(n - i)
RECURSIVE BinomTail(_, _, _, _)
BinomTail(lo, n, a, b) ==
    IF lo > n THEN 0
    ELSE Choose(n, lo) * Pow(a, lo) * Pow(b - a, n - lo) + BinomTail(lo + 1, n, a, b)

\* stats.binom.sf(k, n, p): the survival function P(X > k), X ~ Binomial(n, p)
BinomSf(k, n, p) == Frac(BinomTail(k + 1, n, p[1], p[2]), Pow(p[2], n))

\* the loop "for bic in self.biclusters" (lines 134-140); it stops at the
\* first exception, leaving the pvalues already assigned
RECURSIVE ScoreLoop(_, _, _, _, _)
ScoreLoop(heap, ids, table, labels, n_rows) ==
    IF ids = <<>> THEN [err |-> "none", heap |-> heap]
    ELSE LET bic == heap[Head(ids)]
             jp == JointProb(bic, table, labels, 0, <<1, 1>>)
         IN IF jp.err # "none" THEN [err |-> jp.err, heap |-> heap]
            ELSE ScoreLoop([heap EXCEPT ![Head(ids)].pvalue =
                                BinomSf(Len(bic.rows), n_rows, jp.val)],
                           Tail(ids), table, labels, n_rows)

\* Biclustering.run_constant_freq_column
RunConstantFreqColumn(heap, ids, M, labels, missing_correction) ==
    LET table == FreqCols(M, labels, missing_correction)
        res == ScoreLoop(heap, ids, table, labels, NRowsOf(M))
    IN [err |-> res.err, heap |-> res.heap, table |-> table]

(***************************************************************************)
(* State.  bics: the Bicluster objects created so far; biclusters: the     *)
(* member list of the Biclustering; data_matrix: the source matrix;        *)
(* ret: the last call: its name, its exception, its arguments and its      *)
(* return value, each kind of value in a field of its own.                 *)
(***************************************************************************)
Call(op, err) ==
    [op |-> op, err |-> err,
     ref |-> 0,              \* the Bicluster returned (its position in bics)
     truth |-> FALSE,        \* a boolean result
     code |-> 0,             \* the result of contained_in
     ratio |-> <<0, 1>>,     \* the result of overlap
     table |-> <<>>,         \* freq_cols
     members |-> <<>>,       \* the member list before the call
     threshold |-> <<0, 1>>, \* argument pv
     labels |-> <<>>, mc |-> FALSE,
     pair |-> <<>>,          \* the operands of == and of hash
     rows |-> IntArr(<<>>), cols |-> IntArr(<<>>), data |-> NoData]

\* matrix of the worked example: rows [[1,0],[1,0],[0,1],[1,1]]
ExampleMatrix == <<<<1, 0>>, <<1, 0>>, <<0, 1>>, <<1, 1>>>>

\* data snapshot data_matrix[rows][:, cols]
Snapshot(M, rows, cols) ==
    NdData(Len(rows), Len(cols),
           [i \in DOMAIN rows |-> [j \in DOMAIN cols |-> M[rows[i] + 1][cols[j] + 1]]])

InMatrix(M, rows, cols) ==
    /\ \A i \in DOMAIN rows : rows[i] + 1 <= NRowsOf(M)
    /\ \A j \in DOMAIN cols : cols[j] + 1 <= NColsOf(M)

Init ==
    /\ bics = <<>>
    /\ biclusters = <<>>
    /\ data_matrix = ExampleMatrix
    /\ ret = Call("init", "none")

\* b = Bicluster(rows, cols, data, pvalue)
Construct(rows, cols, data, pvalue) ==
    LET r == BiclusterInit(rows, cols, data, pvalue)
    IN /\ bics' = IF r.err = "none" THEN Append(bics, r.obj) ELSE bics
       /\ ret' = [Call("Bicluster", r.err) EXCEPT
                      !.rows = rows, !.cols = cols, !.data = data,
                      !.ref = IF r.err = "none" THEN Len(bics) + 1 ELSE 0]
       /\ UNCHANGED <<biclusters, data_matrix>>

\* bics[i].set_pvalue(pv)
SetPvalue(i, pv) ==
    /\ bics' = [bics EXCEPT ![i] = SetPvalueObj(bics[i], pv)]
    /\ ret' = Call("set_pvalue", "none")
    /\ UNCHANGED <<biclusters, data_matrix>>

\* bics[i].sort()
Sort(i) ==
    /\ bics' = [bics EXCEPT ![i] = SortObj(bics[i])]
    /\ ret' = Call("sort", "none")
    /\ UNCHANGED <<biclusters, data_matrix>>

\* c = bics[i].intersection(bics[j])
IntersectionCall(i, j) ==
    LET r == Intersection(bics[i], bics[j])
    IN /\ bics' = IF r.err = "none" THEN Append(bics, r.obj) ELSE bics
       /\ ret' = [Call("intersection", r.err) EXCEPT
                      !.ref = IF r.err = "none" THEN Len(bics) + 1 ELSE 0]
       /\ UNCHANGED <<biclusters, data_matrix>>

\* c = bics[i].union(bics[j])
UnionCall(i, j) ==
    LET r == Union(bics[i], bics[j])
    IN /\ bics' = IF r.err = "none" THEN Append(bics, r.obj) ELSE bics
       /\ ret' = [Call("union", r.err) EXCEPT
                      !.ref = IF r.err = "none" THEN Len(bics) + 1 ELSE 0]
       /\ UNCHANGED <<biclusters, data_matrix>>

\* bics[i].overlap(bics[j])
OverlapCall(i, j) ==
    LET r == Overlap(bics[i], bics[j])
    IN /\ ret' = [Call("overlap", r.err) EXCEPT !.ratio = r.val]
       /\ UNCHANGED <<bics, biclusters, data_matrix>>

\* bics[i].contained_in(bics[j])
ContainedInCall(i, j) ==
    /\ ret' = [Call("contained_in", "none") EXCEPT !.code = ContainedIn(bics[i], bics[j])]
    /\ UNCHANGED <<bics, biclusters, data_matrix>>

\* bics[i] == bics[j]
EqCall(i, j) ==
    /\ ret' = [Call("__eq__", "none") EXCEPT
                   !.pair = <<i, j>>, !.truth = Eq(bics[i], bics[j])]
    /\ UNCHANGED <<bics, biclusters, data_matrix>>

\* hash(bics[i]) == hash(bics[j])
HashCall(i, j) ==
    /\ ret' = [Call("__hash__", "none") EXCEPT
                   !.pair = <<i, j>>, !.truth = (Hash(bics[i]) = Hash(bics[j]))]
    /\ UNCHANGED <<bics, biclusters, data_matrix>>

\* Biclustering(elems)
NewBiclustering(elems) ==
    LET r == BiclusteringInit(elems)
    IN /\ biclusters' = IF r.err = "none" THEN r.val ELSE biclusters
       /\ ret' = Call("Biclustering", r.err)
       /\ UNCHANGED <<bics, data_matrix>>

\* remove_duplicates()
RemoveDuplicates ==
    /\ \E res \in RemoveDuplicatesResults(bics, biclusters) : biclusters' = res
    /\ ret' = [Call("remove_duplicates", "none") EXCEPT !.members = biclusters]
    /\ UNCHANGED <<bics, data_matrix>>

\* remove_bypvalue(pv)
RemoveByPvalue(pv) ==
    LET r == RemoveByPvalueResult(bics, biclusters, pv)
    IN /\ biclusters' = r.val
       /\ ret' = [Call("remove_bypvalue", r.err) EXCEPT
                      !.members = biclusters, !.threshold = pv]
       /\ UNCHANGED <<bics, data_matrix>>

\* sort_by_area(descending)
SortByArea(descending) ==
    /\ biclusters' = SortByAreaResult(bics, biclusters, descending)
    /\ ret' = Call("sort_by_area", "none")
    /\ UNCHANGED <<bics, data_matrix>>

\* run_constant_freq_column(data_matrix, labels, missing_correction)
Run(labels, missing_correction) ==
    LET r == RunConstantFreqColumn(bics, biclusters, data_matrix, labels,
                                   missing_correction)
    IN /\ bics' = r.heap
       /\ ret' = [Call("run_constant_freq_column", r.err) EXCEPT
                      !.labels = labels, !.mc = missing_correction, !.table = r.table]
       /\ UNCHANGED <<biclusters, data_matrix>>

(***************************************************************************)
(* Inputs of the calls.                                                    *)
(***************************************************************************)
RECURSIVE SeqsOfLen(_, _)
SeqsOfLen(S, k) ==
    IF k = 0 THEN {<<>>}
    ELSE {Append(s, x) : s \in SeqsOfLen(S, k - 1), x \in S}

SeqsUpTo(S, n) == UNION {SeqsOfLen(S, k) : k \in 0..n}

IndexUniverse == 0..1

\* index arrays, repeated indices and any order included
IndexArrays == SeqsUpTo(IndexUniverse, MaxLen)

RowChoices == {<<0, 1>>, <<1, 0>>}

ColChoices == {<<0>>}

PvalueChoices == {<<1, 20>>}

ThresholdChoices == {<<1, 2>>}

LabelChoices == {<<0, 1>>, <<0>>}

\* member lists: references to distinct Biclusters, or a list holding
\* something that is not a Bicluster
MemberLists ==
    {s \in SeqsUpTo(DOMAIN bics, MaxColl) : \A k, l \in DOMAIN s : k # l => s[k] # s[l]}
        \cup {<<0>>}

Refs == DOMAIN bics

New ==
    /\ Len(bics) < MaxBics
    /\ \E rows \in RowChoices, cols \in ColChoices :
          Construct(IntArr(rows), IntArr(cols), Snapshot(data_matrix, rows, cols), None)

DoSetPvalue == \E i \in Refs, pv \in PvalueChoices : SetPvalue(i, pv)

DoSort == \E i \in Refs : Sort(i)

DoIntersection == Len(bics) < MaxBics /\ \E i, j \in Refs : IntersectionCall(i, j)

DoUnion == Len(bics) < MaxBics /\ \E i, j \in Refs : UnionCall(i, j)

DoOverlap == \E i, j \in Refs : OverlapCall(i, j)

DoContainedIn == \E i, j \in Refs : ContainedInCall(i, j)

DoNewBiclustering == \E elems \in MemberLists : NewBiclustering(elems)

DoRemoveByPvalue == \E pv \in ThresholdChoices : RemoveByPvalue(pv)

DoSortByArea == \E descending \in BOOLEAN : SortByArea(descending)

DoRun == \E labels \in LabelChoices, mc \in BOOLEAN : Run(labels, mc)

Next ==
    \/ New
    \/ DoSetPvalue
    \/ DoSort
    \/ DoIntersection
    \/ DoUnion
    \/ DoOverlap
    \/ DoContainedIn
    \/ DoNewBiclustering
    \/ RemoveDuplicates
    \/ DoRemoveByPvalue
    \/ DoSortByArea
    \/ DoRun

Spec == Init /\ [][Next]_vars

(***************************************************************************)
(* Geometry and equality of two Biclusters a, b built from arbitrary index *)
(* arrays: the initial state holds the two objects, the actions call the   *)
(* pure methods on them.                                                   *)
(***************************************************************************)
GeomCols == {<<>>, <<0>>, <<0, 1>>, <<1, 0>>}

MakeBic(rows, cols) == BiclusterInit(IntArr(rows), IntArr(cols), NoData, None).obj

InitGeom ==
    /\ \E r1 \in IndexArrays, r2 \in IndexArrays, c1 \in GeomCols, c2 \in GeomCols :
          bics = <<MakeBic(r1, c1), MakeBic(r2, c2)>>
    /\ biclusters = <<>>
    /\ data_matrix = ExampleMatrix
    /\ ret = Call("init", "none")

DoEq == \E i, j \in Refs : EqCall(i, j)

DoHash == \E i, j \in Refs : HashCall(i, j)

NextGeom ==
    \/ DoOverlap
    \/ DoContainedIn
    \/ DoEq
    \/ DoHash
    \/ DoSort

SpecGeom == InitGeom /\ [][NextGeom]_vars

(***************************************************************************)
(* Construction from every kind of argument.                               *)
(***************************************************************************)
Masks == [1..Cardinality(IndexUniverse) -> BOOLEAN]

CtorArrays ==
    {IntArr(s) : s \in {<<>>, <<0>>, <<1, 0>>}} \cup {BoolArr(m) : m \in Masks}
        \cup {FloatArr(<<0>>), PyList(<<0, 1>>)}

Zeros(n, m) == [i \in 1..n |-> [j \in 1..m |-> 0]]

CtorData ==
    {NoData, ListData} \cup {NdData(n, m, Zeros(n, m)) : n \in 0..MaxLen, m \in 0..MaxLen}

NewAny ==
    /\ bics = <<>>
    /\ \E rows \in CtorArrays, cols \in CtorArrays, data \in CtorData :
          Construct(rows, cols, data, None)

NextCtor == NewAny

SpecCtor == Init /\ [][NextCtor]_vars

(***************************************************************************)
(* The frequency table over every small matrix and alphabet.               *)
(***************************************************************************)
MaxRows == 2       \* most rows of a matrix drawn for the frequency table

CellValues == {0, 1, 2}

AlphabetValues == {0, 1}

MatrixWidth == Len(ExampleMatrix[1])

Matrices ==
    UNION {[1..n -> [1..MatrixWidth -> CellValues]] : n \in 1..MaxRows}
        \cup {ExampleMatrix}

\* alphabets: sequences of distinct labels
Alphabets ==
    {s \in SeqsUpTo(AlphabetValues, Cardinality(AlphabetValues)) :
        \A k, l \in DOMAIN s : k # l => s[k] # s[l]}

InitFreq ==
    /\ data_matrix \in Matrices
    /\ bics = <<BiclusterInit(IntArr(<<0>>), IntArr(<<0>>),
                              Snapshot(data_matrix, <<0>>, <<0>>), None).obj>>
    /\ biclusters = <<1>>
    /\ ret = Call("init", "none")

DoRunAny == \E labels \in Alphabets, mc \in BOOLEAN : Run(labels, mc)

NextFreq == DoRunAny

SpecFreq == InitFreq /\ [][NextFreq]_vars

(***************************************************************************)
(* Properties.                                                             *)
(***************************************************************************)
Unique(s) == \A k, l \in DOMAIN s : k # l => s[k] # s[l]

\* the same unique row indices and the same unique column indices, in any order
SameSets(a, b) ==
    /\ a.rows_set = b.rows_set /\ a.cols_set = b.cols_set
    /\ Unique(a.rows) /\ Unique(a.cols) /\ Unique(b.rows) /\ Unique(b.cols)

\* C1: two Biclusters with equal row sets and equal column sets, in whatever
\* order the indices are stored, compare equal and have equal hashes.
EqualSetsEqualHash ==
    (/\ ret.op \in {"__eq__", "__hash__"}
     /\ SameSets(bics[ret.pair[1]], bics[ret.pair[2]]))
        => ret.truth

\* C2: after remove_duplicates() no two remaining members are equal and every
\* prior member is equal to some remaining member.
DedupLeavesNoEqualPair ==
    ret.op = "remove_duplicates" =>
        /\ \A k, l \in DOMAIN biclusters :
              k # l => ~Eq(bics[biclusters[k]], bics[biclusters[l]])
        /\ \A k \in DOMAIN ret.members :
              \E l \in DOMAIN biclusters : Eq(bics[ret.members[k]], bics[biclusters[l]])

\* P(X >= k), X ~ Binomial(n, p)
BinomAtLeast(k, n, p) == Frac(BinomTail(k, n, p[1], p[2]), Pow(p[2], n))

\* C3: run_constant_freq_column gives every member pvalue = P(X >= k) with
\* k its number of rows, n the rows of the matrix and p the product of the
\* background frequencies of its representative labels.
PvalueIsAtLeastTail ==
    (ret.op = "run_constant_freq_column" /\ ret.err = "none") =>
        \A k \in DOMAIN biclusters :
            LET bic == bics[biclusters[k]]
                p == JointProb(bic, ret.table, ret.labels, 0, <<1, 1>>).val
            IN bic.pvalue = BinomAtLeast(Len(bic.rows), NRowsOf(data_matrix), p)

\* C4: contained_in reports 1 or -1; when it reports 1, self has the smaller
\* area and the intersection has the area of self; equal areas, a Bicluster
\* with itself included, are reported as not contained.
ContainedInIsStrict ==
    \A i, j \in DOMAIN bics :
        LET a == bics[i]
            b == bics[j]
            c == ContainedIn(a, b)
        IN /\ c \in {1, -1}
           /\ c = 1 => (a.area < b.area /\ Intersection(a, b).obj.area = a.area)
           /\ a.area = b.area => c = -1
           /\ ContainedIn(a, a) = -1

ContainedInWitness ==
    /\ ret.op = "contained_in"
    /\ ret.code = 1
    /\ \E i, j \in DOMAIN bics : bics[i].area > 0 /\ ContainedIn(bics[i], bics[j]) = 1

\* C5: remove_bypvalue on a collection with a member whose pvalue is unset
\* ends in an error and leaves the member list as it was.
FilterBeforeAnnotationRaises ==
    (/\ ret.op = "remove_bypvalue"
     /\ \E k \in DOMAIN ret.members : bics[ret.members[k]].pvalue = None)
        => (ret.err # "none" /\ biclusters = ret.members)

FilterBeforeAnnotationWitness ==
    /\ ret.op = "remove_bypvalue"
    /\ ret.err = "TypeError"
    /\ \E k, l \in DOMAIN biclusters :
          /\ bics[biclusters[k]].pvalue = None
          /\ bics[biclusters[l]].pvalue # None
          /\ FracLess(bics[biclusters[l]].pvalue, ret.threshold)

\* the number of indices an argument selects
Selected(arg) ==
    IF arg.dtype = "bool" THEN Cardinality({k \in DOMAIN arg.mask : arg.mask[k]})
    ELSE Len(arg.v)

ValidArguments(rows, cols, data) ==
    /\ rows.type = "ndarray" /\ cols.type = "ndarray"
    /\ rows.dtype = cols.dtype /\ rows.dtype \in {"bool", "int"}
    /\ \/ data.kind = "None"
       \/ /\ data.kind = "ndarray"
          /\ \/ data.shape = <<Selected(rows), Selected(cols)>>
             \/ (data.shape[1] = 0 /\ Selected(rows) = 0)

\* C6: construction succeeds exactly on two boolean masks or two integer
\* index arrays with data, if any, of matching shape; everything else is
\* rejected with the validation error and no Bicluster comes to exist.
ConstructionValidates ==
    ret.op = "Bicluster" =>
        LET valid == ValidArguments(ret.rows, ret.cols, ret.data)
        IN /\ (ret.err = "none") <=> valid
           /\ ~valid => (ret.err = "ValueError" /\ ret.ref = 0 /\ bics = <<>>)

NonDegenerate(b) == b.area # 0 /\ Unique(b.rows) /\ Unique(b.cols)

\* C7: for Biclusters of non-zero area and unique indices the overlap lies in
\* [0, 1], the intersection is no larger than the smaller operand, and the
\* overlap of a Bicluster with itself is 1.
OverlapWithinUnit ==
    \A i, j \in DOMAIN bics :
        LET a == bics[i]
            b == bics[j]
            o == Overlap(a, b)
        IN (NonDegenerate(a) /\ NonDegenerate(b)) =>
              /\ o.err = "none"
              /\ FracLeq(<<0, 1>>, o.val) /\ FracLeq(o.val, <<1, 1>>)
              /\ Intersection(a, b).obj.area <= Min(a.area, b.area)
              /\ Overlap(a, a) = [err |-> "none", val |-> <<1, 1>>]

OverlapWitness ==
    /\ ret.op = "overlap"
    /\ ret.err = "none"
    /\ ret.ratio = <<1, 2>>
    /\ \A i \in DOMAIN bics : NonDegenerate(bics[i])

\* C8: run_constant_freq_column on members that all carry data completes
\* without raising and leaves every member with a pvalue.
RunNeverRaises ==
    (/\ ret.op = "run_constant_freq_column"
     /\ \A k \in DOMAIN biclusters : bics[biclusters[k]].data.kind = "ndarray")
        => /\ ret.err = "none"
           /\ \A k \in DOMAIN biclusters : bics[biclusters[k]].pvalue # None

FracAdd(x, y) == Frac(x[1] * y[2] + y[1] * x[2], x[2] * y[2])

RECURSIVE FracSum(_)
FracSum(row) == IF row = <<>> THEN <<0, 1>> ELSE FracAdd(Head(row), FracSum(Tail(row)))

InAlphabet(M, c, labels) == {r \in DOMAIN M : M[r][c] \in SetOf(labels)}

\* C9: the table holds, per column and label, (rows with the label) / D, D the
\* number of in-alphabet rows of the column, or the row count under
\* missing_correction; an absent label has frequency 0; without
\* missing_correction a column with an in-alphabet value sums to 1.
FreqTableIsRelativeCount ==
    ret.op = "run_constant_freq_column" =>
        LET labels == ret.labels
            mc == ret.mc
            M == data_matrix
        IN \A c \in 1..NColsOf(M) :
              LET D == IF mc THEN NRowsOf(M) ELSE Cardinality(InAlphabet(M, c, labels))
                  row == ret.table[c]
              IN /\ \A l \in DOMAIN labels :
                       LET cnt == Cardinality({r \in DOMAIN M : M[r][c] = labels[l]})
                       IN /\ D # 0 => row[l][1] * D = cnt * row[l][2]
                          /\ cnt = 0 => row[l][1] = 0
                 /\ (~mc /\ D > 0) => FracSum(row) = <<1, 1>>

FreqTableWitness ==
    /\ ret.op = "run_constant_freq_column"
    /\ ret.mc
    /\ \E c \in 1..NColsOf(data_matrix) :
          LET n == Cardinality(InAlphabet(data_matrix, c, ret.labels))
          IN 0 < n /\ n < NRowsOf(data_matrix)

Occurrences(s, x) == Cardinality({k \in DOMAIN s : s[k] = x})

SameElements(s, t) == \A x \in SetOf(s) \cup SetOf(t) : Occurrences(s, x) = Occurrences(t, x)

DerivedFieldsAgree(b) ==
    /\ b.rows_set = SetOf(b.rows)
    /\ b.cols_set = SetOf(b.cols)
    /\ b.area = Len(b.rows) * Len(b.cols)

OnlyPvalueAndOrderChange ==
    \A i \in DOMAIN bics :
        /\ i \in DOMAIN bics'
        /\ bics'[i].rows_set = bics[i].rows_set
        /\ bics'[i].cols_set = bics[i].cols_set
        /\ bics'[i].area = bics[i].area
        /\ bics'[i].data = bics[i].data
        /\ SameElements(bics'[i].rows, bics[i].rows)
        /\ SameElements(bics'[i].cols, bics[i].cols)
        /\ (bics'[i].rows # bics[i].rows \/ bics'[i].cols # bics[i].cols)
              => ret'.op = "sort"

\* C10: whatever operations run, every Bicluster keeps rows_set = set(rows),
\* cols_set = set(cols), area = |rows| * |cols| and the row and column sets
\* it was built with; only pvalue changes, and rows/cols only in order, by
\* sort.
BiclusterShapeIsStable ==
    /\ \A i \in DOMAIN bics : DerivedFieldsAgree(bics[i])
    /\ [][\/ bics' = bics
          \/ /\ OnlyPvalueAndOrderChange
             /\ \A i \in DOMAIN bics' : DerivedFieldsAgree(bics'[i])]_vars

BiclusterShapeWitness ==
    /\ ret.op = "sort"
    /\ Len(bics) = MaxBics
    /\ \E i \in DOMAIN bics : bics[i].pvalue # None /\ bics[i].data.kind = "ndarray"
    /\ \E i \in DOMAIN bics : bics[i].data.kind = "None"
    /\ biclusters # <<>>

====
